---- MODULE Spec2Model ----
(***************************************************************************)
(* MFixedPoint: the fixed-point value types of the repository.             *)
(*                                                                         *)
(*   FpS<BaseType, OverflowType, numFracBits_>  include/MFixedPoint/FpS.hpp*)
(*       with its two named instantiations                                 *)
(*           fp16 = FpS<int16_t, int32_t, 8>                               *)
(*           fp32 = FpS<int32_t, int64_t, 16>                              *)
(*   Fp32s (per-instance number of fractional bits q)                      *)
(*                                         src/include/FixedPoint-Fp32s.hpp*)
(*                                                                         *)
(* TLC's integers are 32 bits wide and an overflow is an error,            *)
(* never a wrong value.  Arithmetic of int32_t that can wrap and the       *)
(* int64_t intermediates of fp32 are therefore computed on half-words      *)
(* (HalfBits bits each), which keeps every intermediate inside 32 bits.    *)
(* For both instantiations numFracBits_ is exactly half the width of       *)
(* BaseType, so a half-word is numFracBits_ bits.                          *)
(***************************************************************************)
EXTENDS Integers, Sequences, FiniteSets, TLC

VARIABLES
    ty,        \* the FpS instantiation in use: "fp16" or "fp32"
    a,         \* rawVal_ of the left operand as constructed
    b,         \* rawVal_ of the right operand r (passed by value, never written)
    rawVal_,   \* rawVal_ of the object the operators act on (starts as a)
    hist,      \* the operators applied to the object so far, oldest first
    arg,       \* the argument the object was constructed from, when modelled
    ret,       \* what the last conversion or comparison returned
    pc,        \* "new", "ready", "returned" or "trapped"
    rawVal,    \* Fp32s: field rawVal of the left operand
    q,         \* Fp32s: field q of the left operand
    r_rawVal,  \* Fp32s: field rawVal of the right operand r
    r_q,       \* Fp32s: field q of the right operand r
    s_old      \* Fp32s: (rawVal, q) of the left operand before the last +=

vars == <<ty, a, b, rawVal_, hist, arg, ret, pc, rawVal, q, r_rawVal, r_q, s_old>>

fpsVars == <<ty, a, b, rawVal_, hist, arg, ret, pc>>
fp32sVars == <<rawVal, q, r_rawVal, r_q, s_old>>

-----------------------------------------------------------------------------
(* Bounds of the model.                                                    *)

\* Raw values are drawn within Near of the extremes of BaseType, of zero and
\* of plus and minus one at the instantiation's scale; constructor integers
\* likewise.
Near == 1

\* Doubles are drawn as a number of tenths, from -MaxTenths to MaxTenths
\* (and the documented 66.3 and -66.3).
MaxTenths == 12

\* An object is the left operand of at most MaxOps operators in a row, each
\* with the same right operand: (a op b) op b.
MaxOps == 2

\* Fp32s: q is drawn from 0 to MaxQ, the constructor's integer from -MaxInt
\* to MaxInt.
MaxQ == 3
MaxInt == 3

-----------------------------------------------------------------------------
(* The instantiations (FpS.hpp, lines 280-281).                            *)

FpTypes == {"fp16", "fp32"}

\* Width of BaseType in bits.
BaseBits(t) == IF t = "fp16" THEN 16 ELSE 32

\* The template argument numFracBits_.
numFracBits_(t) == IF t = "fp16" THEN 8 ELSE 16

HalfBits(t) == BaseBits(t) \div 2

Pow2(n) == 2 ^ n

\* Least and greatest value of BaseType (written so that no intermediate
\* leaves 32 bits).
MinBase(t) == (-Pow2(BaseBits(t) - 2)) - Pow2(BaseBits(t) - 2)
MaxBase(t) == (Pow2(BaseBits(t) - 2) - 1) + Pow2(BaseBits(t) - 2)

MinInt32 == MinBase("fp32")
MaxInt32 == MaxBase("fp32")

InBase(t, v) == MinBase(t) <= v /\ v <= MaxBase(t)

\* The raw value of the integer 1: 1 << numFracBits_.
One(t) == Pow2(numFracBits_(t))

-----------------------------------------------------------------------------
(* Two's complement arithmetic of BaseType on half-words.                  *)

\* The value of the low n bits of u read as a signed n-bit integer.
SignedBits(n, u) == ((u + Pow2(n - 1)) % Pow2(n)) - Pow2(n - 1)

Hi(t, v) == v \div Pow2(HalfBits(t))
Lo(t, v) == v % Pow2(HalfBits(t))

\* The BaseType value whose high half-word is the low bits of hi and whose
\* low half-word is lo (0 <= lo < 2^HalfBits).
FromHalves(t, hi, lo) == SignedBits(HalfBits(t), hi) * Pow2(HalfBits(t)) + lo

\* Conversion of an int (at most 32 bits) to BaseType: the low bits are kept.
Narrow(t, v) == FromHalves(t, Hi(t, v), Lo(t, v))

\* x + y and x - y in BaseType, wrapping modulo 2^BaseBits.
BaseAdd(t, x, y) ==
    LET lo == Lo(t, x) + Lo(t, y)
    IN  FromHalves(t, Hi(t, x) + Hi(t, y) + (lo \div Pow2(HalfBits(t))),
                   lo % Pow2(HalfBits(t)))

BaseSub(t, x, y) ==
    LET lo == Lo(t, x) - Lo(t, y)
    IN  FromHalves(t, Hi(t, x) - Hi(t, y) + (lo \div Pow2(HalfBits(t))),
                   lo % Pow2(HalfBits(t)))

\* (v << numFracBits_) converted to BaseType, for an int32_t v: the low
\* (BaseBits - numFracBits_) bits of v move to the high half-word.
ShlNarrow(t, v) == FromHalves(t, v % Pow2(HalfBits(t)), 0)

\* v >> numFracBits_ : the arithmetic right shift, which is the floor.
Shr(t, v) == v \div Pow2(numFracBits_(t))

\* -v in int: exact for an int16_t operand (promoted to int); for an int32_t
\* operand -INT32_MIN overflows and the hardware's result is INT32_MIN.
IntNeg(v) == IF v = MinInt32 THEN MinInt32 ELSE -v

-----------------------------------------------------------------------------
(* The widened intermediates of operator*= and operator/=.                 *)

\* (xl * yl) >> HalfBits for two low half-words, by quarter-words.
LoProdShr(t, xl, yl) ==
    LET qw == Pow2(HalfBits(t) \div 2)
    IN  ((xl \div qw) * yl + (((xl % qw) * yl) \div qw)) \div qw

\* (BaseType)(((OverflowType)x * (OverflowType)y) >> numFracBits_).
\* OverflowType is twice as wide as BaseType, so the product is exact; with
\* x = xh*2^H + xl and y = yh*2^H + yl (H = numFracBits_) the shifted product
\* is xh*yh*2^H + xh*yl + xl*yh + ((xl*yl) >> H), summed modulo 2^BaseBits.
MulShr(t, x, y) ==
    LET xh == Hi(t, x)
        xl == Lo(t, x)
        yh == Hi(t, y)
        yl == Lo(t, y)
    IN  BaseAdd(t,
                BaseAdd(t, FromHalves(t, (xh * yh) % Pow2(HalfBits(t)), 0), xh * yl),
                BaseAdd(t, xl * yh, LoProdShr(t, xl, yl)))

Abs(v) == IF v < 0 THEN -v ELSE v

\* floor(rem * 2^k / d) for 0 <= rem < d, one quotient bit at a time.
RECURSIVE FracDiv(_, _, _)
FracDiv(rem, d, k) ==
    IF k = 0 THEN 0
    ELSE IF rem >= d - rem
         THEN Pow2(k - 1) + FracDiv(rem - (d - rem), d, k - 1)
         ELSE FracDiv(rem + rem, d, k - 1)

\* The two half-words of floor((|x| << numFracBits_) / |y|) modulo
\* 2^BaseBits, for y # 0.  |MinBase| is not a value of TLC's
\* integers for fp32, hence the two special cases.
MagQuot(t, x, y) ==
    LET h == Pow2(HalfBits(t))
    IN  IF y = MinBase(t)
        THEN IF x = MinBase(t) THEN <<1, 0>>
             ELSE <<0, Abs(x) \div Pow2(HalfBits(t) - 1)>>
        ELSE LET d == Abs(y)
             IN  IF x = MinBase(t)
                 THEN LET q1 == MaxBase(t) \div d
                          r1 == MaxBase(t) % d
                      IN  IF r1 + 1 = d
                          THEN <<((q1 % h) + 1) % h, 0>>
                          ELSE <<q1 % h, FracDiv(r1 + 1, d, HalfBits(t))>>
                 ELSE <<(Abs(x) \div d) % h, FracDiv(Abs(x) % d, d, HalfBits(t))>>

\* (BaseType)(((OverflowType)x << numFracBits_) / (OverflowType)y), y # 0:
\* the native quotient, truncated toward zero, then the low BaseBits bits.
ShlDiv(t, x, y) ==
    LET m  == MagQuot(t, x, y)
        h  == Pow2(HalfBits(t))
    IN  IF (x >= 0) = (y > 0) THEN FromHalves(t, m[1], m[2])
        ELSE IF m[2] = 0 THEN FromHalves(t, -m[1], 0)
        ELSE FromHalves(t, h - 1 - m[1], h - m[2])

\* n % d of the language for d # 0: the remainder of the division truncated
\* toward zero, which is zero or has the sign of n.
TruncRem(t, n, d) ==
    IF d = MinBase(t) THEN (IF n = MinBase(t) THEN 0 ELSE n)
    ELSE LET m == n % Abs(d)
         IN  IF n >= 0 \/ m = 0 THEN m ELSE m - Abs(d)

-----------------------------------------------------------------------------
(* class FpS.                                                              *)

\* A constructor that forgets the shift: rawVal_ = integer.
FpSFromIntUnscaled(t, integer) == Narrow(t, integer)

\* FpS(int32_t integer): rawVal_ = integer << numFracBits_.
FpSFromInt(t, integer) == ShlNarrow(t, integer)

\* FpS(double dbl): rawVal_ = (BaseType)(dbl * ((BaseType)1 << numFracBits_)).
\* The double is tenths/10; the conversion to BaseType truncates toward zero.
\* (When the product is not an integer it is at least 1/10 away from one, far
\* more than the error of the double nearest to tenths/10; when it is one,
\* tenths/10 is a multiple of 1/2 and the double is exact.)
FpSFromDouble(t, tenths) ==
    LET scaled == tenths * One(t)
    IN  IF scaled >= 0 THEN scaled \div 10 ELSE -((-scaled) \div 10)

\* GetRawVal().
GetRawVal(raw) == raw

\* An addition that saturates at the extremes of BaseType.
AddAssignSaturating(t, raw, r) ==
    IF r > 0 /\ raw > MaxBase(t) - r THEN MaxBase(t)
    ELSE IF r < 0 /\ raw < MinBase(t) - r THEN MinBase(t)
    ELSE raw + r

\* operator+=(FpS r): rawVal_ = rawVal_ + r.rawVal_.
AddAssign(t, raw, r) == BaseAdd(t, raw, r)

\* operator-() const: return FpS(-rawVal_).  The argument is an int, so the
\* constructor chosen is FpS(int32_t).
Negate(t, raw) == FpSFromInt(t, IntNeg(raw))

\* operator-=(FpS r): rawVal_ = rawVal_ - r.rawVal_.
SubAssign(t, raw, r) == BaseSub(t, raw, r)

\* A multiplication without the cast to OverflowType, for fp16: the product
\* is cut to 16 bits before the shift.
MulAssignUnwidened(t, raw, r) ==
    IF t = "fp16" THEN Narrow(t, Shr(t, Narrow(t, raw * r)))
    ELSE MulShr(t, raw, r)

\* operator*=(FpS r).
MulAssign(t, raw, r) == MulShr(t, raw, r)

\* A division that forgets to scale the dividend: rawVal_ / r.rawVal_.
DivAssignNoPrescale(t, raw, r) ==
    IF raw = MinBase(t) THEN ShlDiv(t, raw, r)
    ELSE IF r = MinBase(t) THEN 0
    ELSE IF (raw >= 0) = (r > 0) THEN Abs(raw) \div Abs(r)
    ELSE -(Abs(raw) \div Abs(r))

\* A division that rounds the quotient toward negative infinity, for fp16.
DivAssignFloored(t, raw, r) ==
    IF t = "fp16"
    THEN Narrow(t, IF r > 0 THEN (raw * One(t)) \div r
                   ELSE (-(raw * One(t))) \div (-r))
    ELSE ShlDiv(t, raw, r)

\* operator/=(FpS r), r.rawVal_ # 0.
DivAssign(t, raw, r) == ShlDiv(t, raw, r)

\* A modulus whose result is never negative for a positive divisor.
ModAssignFloored(t, raw, r) == IF r > 0 THEN raw % r ELSE TruncRem(t, raw, r)

\* operator%=(FpS r): rawVal_ = rawVal_ % r.rawVal_, r.rawVal_ # 0.
ModAssign(t, raw, r) == TruncRem(t, raw, r)

\* The binary operators: FpS x = *this; x op= r; return x.
Plus(t, this, r) == LET x == this IN AddAssign(t, x, r)
Minus(t, this, r) == LET x == this IN SubAssign(t, x, r)
Times(t, this, r) == LET x == this IN MulAssign(t, x, r)
Divide(t, this, r) == LET x == this IN DivAssign(t, x, r)
Modulo(t, this, r) == LET x == this IN ModAssign(t, x, r)

\* A less-than that also holds of equal values.
LtOrEqual(raw, r) == raw <= r

\* The comparison operators compare rawVal_.
Eq(raw, r) == raw = r
Ne(raw, r) == raw # r
Lt(raw, r) == raw < r
Gt(raw, r) == raw > r
Le(raw, r) == raw <= r
Ge(raw, r) == raw >= r

\* The widths of the IntType arguments of ToInt considered: int16_t and
\* int32_t, each wide enough for the integer part of either instantiation.
IntTypeBits == {16, 32}

\* A conversion that rounds toward zero: rawVal_ / (1 << numFracBits_).
ToIntTowardZero(t, raw, bits) ==
    IF raw >= 0 THEN raw \div One(t)
    ELSE IF raw = MinBase(t) THEN -(MaxBase(t) \div One(t)) - 1
    ELSE -((-raw) \div One(t))

\* ToInt<IntType>(): (IntType)(rawVal_ >> numFracBits_).
ToInt(t, raw, bits) ==
    IF bits = 32 THEN Shr(t, raw) ELSE SignedBits(bits, Shr(t, raw))

-----------------------------------------------------------------------------
(* The inputs.                                                             *)

\* Raw values of BaseType: within Near of its least and greatest value, of
\* zero and of plus and minus one (1 << numFracBits_).
Samples(t) ==
    {MinBase(t) + k : k \in 0..Near} \cup {MaxBase(t) - k : k \in 0..Near}
    \cup {c + k : c \in {-One(t), 0, One(t)}, k \in (-Near)..Near}

\* int32_t arguments of FpS(int32_t): within Near of zero, of the least and
\* greatest integer each instantiation holds (-128, 127, -32768, 32767) and
\* of the extremes of int32_t.
IntArgs ==
    {MinInt32 + k : k \in 0..Near} \cup {MaxInt32 - k : k \in 0..Near}
    \cup {c + k : c \in {-32768, -128, 0, 127, 32767}, k \in (-Near)..Near}
    \cup {-67, -66, 66, 67}

\* double arguments of FpS(double), in tenths; all are in range of both
\* instantiations (an out-of-range conversion to BaseType is undefined).
DoubleArgs == ((-MaxTenths)..MaxTenths) \cup {-663, 663, -1279, 1279}

-----------------------------------------------------------------------------
(* FpS: the operators applied to constructed operands.                     *)

NoValue == <<>>

Fp32sIdle ==
    /\ rawVal = 0
    /\ q = 0
    /\ r_rawVal = 0
    /\ r_q = 0
    /\ s_old = NoValue

\* Two operands of one instantiation, already constructed.  Every raw value
\* of BaseType is the value of some constructed object (FpS(double) of
\* raw / 2^numFracBits_).
Init ==
    /\ ty \in FpTypes
    /\ a \in Samples(ty)
    /\ b \in Samples(ty)
    /\ rawVal_ = a
    /\ hist = <<>>
    /\ arg = NoValue
    /\ ret = NoValue
    /\ pc = "ready"
    /\ Fp32sIdle

\* The object is the left operand of at most MaxOps operators in a row.
CanApply == pc = "ready" /\ Len(hist) < MaxOps

\* The object's value is read (converted or compared) as constructed or
\* after the first operator.
CanRead == pc = "ready" /\ Len(hist) <= 1

Applied(op, raw) ==
    /\ rawVal_' = raw
    /\ hist' = Append(hist, op)
    /\ UNCHANGED <<ty, a, b, arg, ret, pc>>
    /\ UNCHANGED fp32sVars

\* The operator does not return: the division instruction traps.
Trapped(op) ==
    /\ pc' = "trapped"
    /\ hist' = Append(hist, op)
    /\ UNCHANGED <<ty, a, b, rawVal_, arg, ret>>
    /\ UNCHANGED fp32sVars

Returned(op, v) ==
    /\ ret' = <<v>>
    /\ pc' = "returned"
    /\ hist' = Append(hist, op)
    /\ UNCHANGED <<ty, a, b, rawVal_, arg>>
    /\ UNCHANGED fp32sVars

\* Division by a zero raw value is undefined.  The builds differ: the divide
\* instruction traps (x86), or it yields the quotient 0 without trapping
\* (AArch64), from which / leaves 0 and % leaves the dividend.
DivisionByZero(op) ==
    \/ Trapped(op)
    \/ Applied(op, IF op \in {"/=", "/"} THEN 0 ELSE rawVal_)

\* INT32_MIN % -1 in int32_t is undefined (the quotient overflows): the
\* instruction traps, or the remainder is 0.  An int16_t operand is promoted
\* to int, where the remainder is defined.
RemOverflows(t, raw, r) == t = "fp32" /\ raw = MinBase(t) /\ r = -1

CallAddAssign == CanApply /\ Applied("+=", AddAssign(ty, rawVal_, b))

CallNegate == CanApply /\ Applied("neg", Negate(ty, rawVal_))

CallSubAssign == CanApply /\ Applied("-=", SubAssign(ty, rawVal_, b))

CallMulAssign == CanApply /\ Applied("*=", MulAssign(ty, rawVal_, b))

CallDivAssign ==
    /\ CanApply
    /\ IF b = 0 THEN DivisionByZero("/=")
       ELSE Applied("/=", DivAssign(ty, rawVal_, b))

CallModAssign ==
    /\ CanApply
    /\ IF b = 0 THEN DivisionByZero("%=")
       ELSE \/ Applied("%=", ModAssign(ty, rawVal_, b))
            \/ RemOverflows(ty, rawVal_, b) /\ Trapped("%=")

\* x = x + r, and so on: the value a binary operator (or, above, the unary
\* minus) returns becomes the object the next operator is applied to.
CallPlus == CanApply /\ Applied("+", Plus(ty, rawVal_, b))

CallMinus == CanApply /\ Applied("-", Minus(ty, rawVal_, b))

CallTimes == CanApply /\ Applied("*", Times(ty, rawVal_, b))

CallDivide ==
    /\ CanApply
    /\ IF b = 0 THEN DivisionByZero("/")
       ELSE Applied("/", Divide(ty, rawVal_, b))

CallModulo ==
    /\ CanApply
    /\ IF b = 0 THEN DivisionByZero("%")
       ELSE \/ Applied("%", Modulo(ty, rawVal_, b))
            \/ RemOverflows(ty, rawVal_, b) /\ Trapped("%")

CallEq == CanRead /\ Returned("==", Eq(rawVal_, b))
CallNe == CanRead /\ Returned("!=", Ne(rawVal_, b))
CallLt == CanRead /\ Returned("<", Lt(rawVal_, b))
CallGt == CanRead /\ Returned(">", Gt(rawVal_, b))
CallLe == CanRead /\ Returned("<=", Le(rawVal_, b))
CallGe == CanRead /\ Returned(">=", Ge(rawVal_, b))

ToIntName(bits) == IF bits = 16 THEN "ToInt<int16_t>" ELSE "ToInt<int32_t>"

CallToInt ==
    /\ CanRead
    /\ \E bits \in IntTypeBits :
          Returned(ToIntName(bits), ToInt(ty, rawVal_, bits))

Next ==
    \/ CallAddAssign
    \/ CallNegate
    \/ CallSubAssign
    \/ CallMulAssign
    \/ CallDivAssign
    \/ CallModAssign
    \/ CallPlus
    \/ CallMinus
    \/ CallTimes
    \/ CallDivide
    \/ CallModulo
    \/ CallEq
    \/ CallNe
    \/ CallLt
    \/ CallGt
    \/ CallLe
    \/ CallGe
    \/ CallToInt

Spec == Init /\ [][Next]_vars

-----------------------------------------------------------------------------
(* FpS: construction, then conversion.                                     *)

\* No object yet.
InitNew ==
    /\ ty \in FpTypes
    /\ a = 0
    /\ b = 0
    /\ rawVal_ = 0
    /\ hist = <<>>
    /\ arg = NoValue
    /\ ret = NoValue
    /\ pc = "new"
    /\ Fp32sIdle

Constructed(ctor, input, raw) ==
    /\ pc = "new"
    /\ rawVal_' = raw
    /\ a' = raw
    /\ arg' = <<input>>
    /\ hist' = <<ctor>>
    /\ pc' = "ready"
    /\ UNCHANGED <<ty, b, ret>>
    /\ UNCHANGED fp32sVars

ConstructFromInt ==
    \E integer \in IntArgs :
        Constructed("FpS(int32_t)", integer, FpSFromInt(ty, integer))

ConstructFromDouble ==
    \E tenths \in DoubleArgs :
        Constructed("FpS(double)", tenths, FpSFromDouble(ty, tenths))

NextConv ==
    \/ ConstructFromInt
    \/ ConstructFromDouble
    \/ CallToInt

SpecConv == InitNew /\ [][NextConv]_vars

-----------------------------------------------------------------------------
(* class Fp32s: the number of fractional bits q is a field.                *)

\* Fp32s(int32_t i, uint8_t qin): rawVal = i << qin; q = qin.
Fp32sFromInt(i, qin) == [rawVal |-> i * Pow2(qin), q |-> qin]

\* operator+=(Fp32s r):
\*     if (q > r.q) { rawVal = (rawVal > (q - r.q)) + r.rawVal; q = q - r.q; }
\* The comparison rawVal > (q - r.q) is a bool, converted to 0 or 1.
Fp32sAddAssign(this, r) ==
    IF this.q > r.q
    THEN [rawVal |-> (IF this.rawVal > (this.q - r.q) THEN 1 ELSE 0) + r.rawVal,
          q      |-> this.q - r.q]
    ELSE this

\* operator int32_t(): rawVal >> q.
Fp32sToInt32(this) == this.rawVal \div Pow2(this.q)

FpSIdle ==
    /\ ty = "fp32"
    /\ a = 0
    /\ b = 0
    /\ rawVal_ = 0
    /\ hist = <<>>
    /\ arg = NoValue

Fp32sObjects == {Fp32sFromInt(i, qin) : i \in (-MaxInt)..MaxInt, qin \in 0..MaxQ}

\* Both operands constructed by Fp32s(int32_t, uint8_t).
InitFp32s ==
    /\ \E this \in Fp32sObjects, r \in Fp32sObjects :
          /\ rawVal = this.rawVal
          /\ q = this.q
          /\ r_rawVal = r.rawVal
          /\ r_q = r.q
    /\ s_old = NoValue
    /\ ret = NoValue
    /\ pc = "ready"
    /\ FpSIdle

\* a += r, once.
Fp32sCallAddAssign ==
    /\ pc = "ready"
    /\ s_old = NoValue
    /\ LET this == [rawVal |-> rawVal, q |-> q]
           sum  == Fp32sAddAssign(this, [rawVal |-> r_rawVal, q |-> r_q])
       IN  /\ rawVal' = sum.rawVal
           /\ q' = sum.q
           /\ s_old' = <<this>>
    /\ UNCHANGED <<r_rawVal, r_q>>
    /\ UNCHANGED fpsVars

\* (int32_t)a.
Fp32sCallToInt32 ==
    /\ pc = "ready"
    /\ ret' = <<Fp32sToInt32([rawVal |-> rawVal, q |-> q])>>
    /\ pc' = "returned"
    /\ UNCHANGED <<ty, a, b, rawVal_, hist, arg>>
    /\ UNCHANGED fp32sVars

NextFp32s ==
    \/ Fp32sCallAddAssign
    \/ Fp32sCallToInt32

SpecFp32s == InitFp32s /\ [][NextFp32s]_vars

-----------------------------------------------------------------------------
(* What the properties below are stated with.                              *)

\* The step applies operator op to the object.
StepOf(op) == hist' = Append(hist, op)

LastOp == hist[Len(hist)]

\* n / d of exact integers, truncated toward zero (d # 0).
RefTruncDiv(n, d) ==
    IF (n >= 0) = (d > 0) THEN Abs(n) \div Abs(d) ELSE -(Abs(n) \div Abs(d))

\* -|v|, which is a 32-bit integer for every 32-bit v.
NegAbs(v) == IF v > 0 THEN -v ELSE v

\* d divides m, for d # 0.
Divides(d, m) ==
    IF d = MinInt32 THEN m = 0 \/ m = MinInt32 ELSE m % Abs(d) = 0

\* rem is the remainder of n by d under division truncated toward zero:
\* n - rem is a multiple of d, |rem| < |d|, and rem is zero or has n's sign.
IsTruncRem(n, d, rem) ==
    /\ Divides(d, n - rem)
    /\ NegAbs(rem) > NegAbs(d)
    /\ rem = 0 \/ (rem > 0) = (n > 0)

\* The order of the represented rationals raw / 2^numFracBits_: by integer
\* part, then by fraction.
ValueLess(t, x, y) ==
    \/ x \div One(t) < y \div One(t)
    \/ x \div One(t) = y \div One(t) /\ x % One(t) < y % One(t)

Count(S) == Cardinality({i \in DOMAIN S : S[i]})

\* integer << numFracBits_ fits in BaseType.
IntFits(t, integer) ==
    /\ -Pow2(BaseBits(t) - numFracBits_(t) - 1) <= integer
    /\ integer <= Pow2(BaseBits(t) - numFracBits_(t) - 1) - 1

-----------------------------------------------------------------------------
(* C1.  Unary negation returns the value whose raw value is the wrapping    *)
(* negation of the operand's raw value at the same scale:                   *)
(* (-a).GetRawVal() == -a.GetRawVal() modulo the width of BaseType, so that *)
(* a + (-a) has raw value 0.                                                *)
(* The code builds the result with FpS(int32_t), which shifts the negated   *)
(* raw value left by numFracBits_ once more.                                *)
C1_NegationNegatesRaw ==
    hist = <<"neg">> =>
        /\ GetRawVal(rawVal_) = BaseSub(ty, 0, a)
        /\ Plus(ty, a, rawVal_) = 0


\* Negating the value 1 of fp16 (raw 256) has acted, and the result's raw
\* value is 0 rather than -256.
C1_NegatedOne ==
    /\ hist = <<"neg">>
    /\ ty = "fp16"
    /\ a = One(ty)
    /\ rawVal_ = 0

-----------------------------------------------------------------------------
(* C2.  For fp16 and every pair of raw values, a *= b sets a's raw value to *)
(* floor(a.raw * b.raw / 2^8) narrowed to int16_t, the product being the    *)
(* exact mathematical product: it never leaves the range of int32_t.  Near  *)
(* the extremes of int16_t the result differs from the one of a multiply    *)
(* cut to 16 bits.                                                          *)
C2_Fp16MulIsExactProductShifted ==
    [][(ty = "fp16" /\ StepOf("*=")) =>
          /\ MinInt32 <= rawVal_ * b /\ rawVal_ * b <= MaxInt32
          /\ rawVal_' = SignedBits(16, (rawVal_ * b) \div 256)
          /\ (rawVal_ = MaxBase(ty) /\ b = MaxBase(ty)) =>
                 rawVal_' # SignedBits(16, SignedBits(16, rawVal_ * b) \div 256)]_vars

\* 32767 *= 32767 in fp16 has acted: the exact product 1073676289 shifted is
\* 4194048, narrowed -256; the 16-bit product 1 shifted is 0.
C2_MulNearMax ==
    /\ hist = <<"*=">>
    /\ ty = "fp16"
    /\ a = 32767
    /\ b = 32767
    /\ rawVal_ = -256
    /\ SignedBits(16, SignedBits(16, a * b) \div 256) = 0

-----------------------------------------------------------------------------
(* C3.  ToInt<T>() returns floor(raw / 2^numFracBits_) for every raw value, *)
(* positive, zero or negative: it rounds toward negative infinity, never    *)
(* toward zero.  The value constructed from 66.3 (raw the truncation of     *)
(* 66.3 * 2^numFracBits_) converts to 66, the one constructed from -66.3    *)
(* (truncated toward zero) to -67.                                          *)
C3_ToIntRoundsDown ==
    (pc = "returned" /\ LastOp \in {ToIntName(bits) : bits \in IntTypeBits}) =>
        /\ ret[1] * One(ty) <= rawVal_
        /\ rawVal_ - ret[1] * One(ty) < One(ty)
        /\ (hist[1] = "FpS(double)" /\ arg = <<663>>) =>
               /\ rawVal_ = (IF ty = "fp16" THEN 16972 ELSE 4345036)
               /\ ret = <<66>>
        /\ (hist[1] = "FpS(double)" /\ arg = <<-663>>) =>
               /\ rawVal_ = (IF ty = "fp16" THEN -16972 ELSE -4345036)
               /\ ret = <<-67>>

\* FpS(-66.3) has been converted by ToInt, which returned -67.
C3_MinusSixtySixPointThree ==
    /\ hist = <<"FpS(double)", "ToInt<int32_t>">>
    /\ arg = <<-663>>
    /\ rawVal_ < 0
    /\ rawVal_ % One(ty) # 0
    /\ ret = <<-67>>

-----------------------------------------------------------------------------
(* C4.  For every integer i such that i * 2^numFracBits_ fits in BaseType   *)
(* (fp16: -128..127, fp32: -32768..32767), constructing from i and then     *)
(* calling ToInt returns exactly i, for negative i as well.                 *)
C4_IntRoundTrip ==
    (pc = "returned" /\ hist[1] = "FpS(int32_t)" /\ IntFits(ty, arg[1])) =>
        ret = arg

\* The least integer of the instantiation has made the round trip.
C4_LeastIntRoundTrip ==
    /\ pc = "returned"
    /\ hist[1] = "FpS(int32_t)"
    /\ arg = <<-Pow2(BaseBits(ty) - numFracBits_(ty) - 1)>>
    /\ rawVal_ = MinBase(ty)
    /\ ret = arg

-----------------------------------------------------------------------------
(* C5.  (a + b) - b == a exactly on raw values, also when a + b overflows   *)
(* BaseType and wraps modulo 2^width: addition and subtraction act on the   *)
(* raw values with no change of scale and no saturation.                    *)
C5_AddThenSubtract ==
    /\ hist \in {<<"+", "-">>, <<"+=", "-=">>, <<"+", "-=">>, <<"+=", "-">>} =>
           Eq(rawVal_, a)
    /\ (ty = "fp16" /\ hist \in {<<"+">>, <<"+=">>}) =>
           rawVal_ = SignedBits(16, a + b)
    /\ (ty = "fp16" /\ hist \in {<<"-">>, <<"-=">>}) =>
           rawVal_ = SignedBits(16, a - b)

\* (a + b) - b has been computed where a + b overflows BaseType.
C5_OverflowingSum ==
    /\ hist = <<"+", "-">>
    /\ a = MaxBase(ty)
    /\ b = One(ty)
    /\ rawVal_ = a

-----------------------------------------------------------------------------
(* C6.  With one the value constructed from the integer 1 (raw value        *)
(* 1 << numFracBits_): a * one == a and a / one == a exactly on raw values, *)
(* for every raw value a, negative ones included.                           *)
C6_OneIsNeutral ==
    [][(b = FpSFromInt(ty, 1) /\ \E op \in {"*", "*=", "/", "/="} : StepOf(op)) =>
          /\ pc' = "ready"
          /\ Eq(rawVal_', rawVal_)]_vars

\* A negative value that is no multiple of one has been multiplied and then
\* divided by one.
C6_NegativeTimesOne ==
    /\ hist = <<"*", "/">>
    /\ b = One(ty)
    /\ a = -One(ty) - 1
    /\ rawVal_ = a

-----------------------------------------------------------------------------
(* C7.  For fp16 and every pair of raw values with b # 0, a /= b sets a's   *)
(* raw value to the quotient (a.raw * 2^8) / b.raw computed exactly in the  *)
(* widened type (the scaled dividend never leaves the range of int32_t),    *)
(* truncated toward zero as the native division does, then narrowed to      *)
(* int16_t; the right operand is unchanged.                                 *)
C7_Fp16DivIsScaledQuotient ==
    [][(ty = "fp16" /\ b # 0 /\ StepOf("/=")) =>
          /\ MinInt32 <= rawVal_ * 256 /\ rawVal_ * 256 <= MaxInt32
          /\ pc' = "ready"
          /\ rawVal_' = SignedBits(16, RefTruncDiv(rawVal_ * 256, b))
          /\ b' = b]_vars

\* -1 /= 257 in fp16 has acted: -256 / 257 truncates to 0 (its floor is -1).
C7_QuotientTruncates ==
    /\ hist = <<"/=">>
    /\ ty = "fp16"
    /\ a = -1
    /\ b = 257
    /\ rawVal_ = 0

-----------------------------------------------------------------------------
(* C8.  The six comparison operators form a total order consistent with the *)
(* represented rational raw / 2^numFracBits_: exactly one of a < b, a == b, *)
(* a > b holds; a < b iff the rational of a is less than the one of b;      *)
(* a != b iff not a == b; a <= b iff a < b or a == b; a >= b iff a > b or   *)
(* a == b; and < is transitive.                                             *)
C8_ComparisonsAreTotalOrder ==
    LET x == rawVal_
        y == b
    IN  /\ Count(<<Lt(x, y), Eq(x, y), Gt(x, y)>>) = 1
        /\ Lt(x, y) <=> ValueLess(ty, x, y)
        /\ Gt(x, y) <=> ValueLess(ty, y, x)
        /\ Ne(x, y) <=> ~Eq(x, y)
        /\ Le(x, y) <=> (Lt(x, y) \/ Eq(x, y))
        /\ Ge(x, y) <=> (Gt(x, y) \/ Eq(x, y))
        /\ \A c \in Samples(ty) : (Lt(x, y) /\ Lt(y, c)) => Lt(x, c)
        /\ (pc = "returned" /\ LastOp = "<") => ret = <<ValueLess(ty, x, y)>>
        /\ (pc = "returned" /\ LastOp = ">") => ret = <<ValueLess(ty, y, x)>>
        /\ (pc = "returned" /\ LastOp = "==") =>
               ret = <<~ValueLess(ty, x, y) /\ ~ValueLess(ty, y, x)>>
        /\ (pc = "returned" /\ LastOp = "!=") =>
               ret = <<ValueLess(ty, x, y) \/ ValueLess(ty, y, x)>>
        /\ (pc = "returned" /\ LastOp = "<=") => ret = <<~ValueLess(ty, y, x)>>
        /\ (pc = "returned" /\ LastOp = ">=") => ret = <<~ValueLess(ty, x, y)>>

\* Two values with the same integer part have been compared by <, which
\* returned true.
C8_LessWithinOneInteger ==
    /\ hist = <<"<">>
    /\ pc = "returned"
    /\ a = -One(ty) + 1
    /\ b = -1
    /\ ret = <<TRUE>>

-----------------------------------------------------------------------------
(* C9.  For all a, b of one instantiation with b.raw # 0, a %= b sets a's   *)
(* raw value to the native remainder of a.raw by b.raw under division       *)
(* truncated toward zero: a.raw == trunc(a.raw / b.raw) * b.raw + r,        *)
(* |r| < |b.raw|, and r is zero or has the sign of the dividend; no         *)
(* rescaling by 2^numFracBits_ is applied.                                  *)

\* As claimed, for every divisor but zero.  It fails for fp32 at
\* INT32_MIN % -1, where the native remainder is undefined and the division
\* instruction may trap.
C9_RemainderForEveryNonzeroDivisor ==
    [][(b # 0 /\ (StepOf("%=") \/ StepOf("%"))) =>
          /\ pc' = "ready"
          /\ IsTruncRem(rawVal_, b, rawVal_')]_vars

\* C9 as amended: the same, except for an int32_t BaseType (fp32) with
\* a.raw = INT32_MIN and b.raw = -1.
C9_RemainderUnlessOverflow ==
    [][(b # 0 /\ ~RemOverflows(ty, rawVal_, b) /\ (StepOf("%=") \/ StepOf("%"))) =>
          /\ pc' = "ready"
          /\ IsTruncRem(rawVal_, b, rawVal_')]_vars

\* A negative dividend has been reduced by a positive divisor: the remainder
\* is negative.
C9_NegativeDividend ==
    /\ hist = <<"%=">>
    /\ pc = "ready"
    /\ a = -One(ty) - 1
    /\ b = One(ty) - 1
    /\ rawVal_ = -2

-----------------------------------------------------------------------------
(* C10.  Fp32s: after a += r the result has the number of fractional bits   *)
(* of the lower of the two inputs (a.q == min(q, r.q)) and a.rawVal is the  *)
(* sum of both raw values aligned to that scale (the more precise operand   *)
(* shifted right by the difference); in particular, when q == r.q, a.rawVal *)
(* becomes rawVal + r.rawVal and q is unchanged.                            *)
(* The code does nothing unless q > r.q, and then stores                    *)
(* (rawVal > (q - r.q)) + r.rawVal, a comparison where a shift was meant,   *)
(* and q - r.q.                                                             *)
C10_Fp32sAddAligns ==
    s_old # NoValue =>
        LET this == s_old[1]
        IN  /\ q = (IF this.q < r_q THEN this.q ELSE r_q)
            /\ rawVal = (IF this.q >= r_q
                         THEN this.rawVal \div Pow2(this.q - r_q) + r_rawVal
                         ELSE this.rawVal + r_rawVal \div Pow2(r_q - this.q))

\* Fp32s(1, 1) += Fp32s(1, 1) has acted and left the raw value 2, not 4.
C10_EqualScalesNotAdded ==
    /\ s_old = <<[rawVal |-> 2, q |-> 1]>>
    /\ r_rawVal = 2
    /\ r_q = 1
    /\ rawVal = 2
    /\ q = 1

====
